---------------------------- MODULE Spec2Model ----------------------------
(***************************************************************************)
(* Animation / transition orchestrator of the PlayStation 3D showcase:     *)
(* CameraAnimator (zoom-in / zoom-out GSAP tweens over OrbitControls),     *)
(* the Experience playback coordinator and panel sequencer, and the        *)
(* Playstation lid animation.                                              *)
(*                                                                         *)
(* Conventions.  Time is counted in tenths of a second.  Vectors are       *)
(* projected on their y component, in hundredths of a scene unit.  Colours *)
(* are projected on their red channel (0..255).  A React handler, the      *)
(* render it causes and the effects of that commit form one step.  One     *)
(* animation frame (GSAP ticker, requestAnimationFrame callbacks, the R3F  *)
(* useFrame loop) is one step.                                             *)
(***************************************************************************)
EXTENDS Integers, FiniteSets, Sequences, TLC

(***************************************************************************)
(* Bounds of the model.                                                    *)
(***************************************************************************)
\* cap on the zoomTrigger counter (console clicks between two resets)
MaxZoom == 2
\* cap on the zoomOutTrigger and openLidTrigger counters (accepted resets)
MaxReset == 1
\* cap on the controlsKey counter
MaxKey == 1
\* time between two animation frames (tenths of a second)
FrameDelta == 8
ProgressWidth == 4

(***************************************************************************)
(* Program constants.                                                      *)
(***************************************************************************)
VIDEOS == <<"/crash-team-racing.webm", "/harryp.webm", "/winning-eleven.webm">>
DEFAULT_VIDEO_INDEX == 0
INITIAL_CAMERA == [position |-> 108, target |-> 66, fov |-> 40]
CLOSEUP_FOV == 35
ANIM_DURATION == 22
BG_DAY == 219
BG_NIGHT == 18
LID_ANIM_DURATION == 10
\* y of the screen mesh centre reported by onScreenReady
ScreenCenter == 90
\* y offset of the close-up camera position above the screen centre
CloseupLift == 3
\* rotation.x of the lid as exported (open, about -50 degrees)
LidOpenAngle == -50
\* |startAngle - endAngle| < 0.001 in a model whose angles are whole degrees
LidEpsilon == 1
\* setTimeout(..., 8000)
SHOW_DELAY == 80
\* total length of the entrance timeline: .15 + .1 + .15 + .8
ENTRANCE_DURATION == 12
\* total length of the hide timeline: .12 + .1 + .12 + .25 - .08
HIDE_DURATION == 5
INSTRUCTION_DELAY == 100

VARIABLES
    \* ---- CameraAnimator -------------------------------------------------
    zoomTrigger, zoomOutTrigger,
    tweenRef,          \* id of the tween tweenRef.current holds, 0 = null
    savedUpdateRef,    \* "null", or the update function saved by a run
    gsapTweens,        \* the live (neither killed nor completed) camera tweens
    zoomInCleanup,     \* the zoom-in effect's last run returned a cleanup
    zoomOutCleanup,    \* the zoom-out effect's last run returned a cleanup
    camera,            \* [position, fov, lookAt]
    sceneBackground,
    controls,          \* OrbitControls: [enabled, update, target]
    rafQueue,          \* a requestAnimationFrame(() => enabled = true) is queued
    \* ---- Experience -----------------------------------------------------
    screenCenterRef, videoRef, controlsTlRef, isHidingControlsRef,
    currentVideoIndex, currentVideoIndexRef, videoSrc, videoTexture, isPlaying,
    isResetting, openLidTrigger, showControls, controlsKey, isHidden,
    hasShownControlsRef, showTimerRef,
    timeouts,          \* pending setTimeout callbacks: [id, remaining]
    entranceCleanup,   \* the entrance effect's last run returned a cleanup
    showInstructionTooltip,
    instructionTimerRef,   \* instructionTimerRef.current is a timer id
    instructionTimeout,    \* the pending timer that id names: {} or {remaining}
    \* ---- VideoTextureLoader and the media element -----------------------
    loaderReady,       \* the mounted loader has delivered its texture
    videoState,        \* of the last bound element: paused, requested, playing
    playResolving,     \* a play() promise is resolved, its then-callback queued
    \* ---- Playstation ----------------------------------------------------
    lidRef,
    initialLidRotationX,   \* << >> = null, <<a>> = the saved open angle
    lidRotationX, lidAnimRef,
    \* ---- the media element's clock and VideoControls (useVideoTime) -------
    currentTime,       \* video.currentTime, in seconds
    videoDuration,     \* video.duration, in seconds; 0: NaN or 0 (|| 0)
    duration,          \* the duration state of useVideoTime
    lastSeek           \* the last seek request made: [kind, from, arg]

vars == <<zoomTrigger, zoomOutTrigger, tweenRef, savedUpdateRef, gsapTweens,
          zoomInCleanup, zoomOutCleanup, camera, sceneBackground, controls,
          rafQueue, screenCenterRef, videoRef, controlsTlRef,
          isHidingControlsRef, currentVideoIndex, currentVideoIndexRef,
          videoSrc, videoTexture, isPlaying, isResetting, openLidTrigger,
          showControls, controlsKey, isHidden, hasShownControlsRef,
          showTimerRef, timeouts, entranceCleanup, loaderReady, videoState,
          playResolving, lidRef, initialLidRotationX, lidRotationX, lidAnimRef,
          showInstructionTooltip, instructionTimerRef, instructionTimeout,
          currentTime, videoDuration, duration, lastSeek>>

\* The current state as one record: handlers and effects map records to records.
S == [zoomTrigger |-> zoomTrigger, zoomOutTrigger |-> zoomOutTrigger,
      tweenRef |-> tweenRef, savedUpdateRef |-> savedUpdateRef,
      gsapTweens |-> gsapTweens, zoomInCleanup |-> zoomInCleanup,
      zoomOutCleanup |-> zoomOutCleanup, camera |-> camera,
      sceneBackground |-> sceneBackground, controls |-> controls,
      rafQueue |-> rafQueue, screenCenterRef |-> screenCenterRef,
      videoRef |-> videoRef, controlsTlRef |-> controlsTlRef,
      isHidingControlsRef |-> isHidingControlsRef,
      currentVideoIndex |-> currentVideoIndex,
      currentVideoIndexRef |-> currentVideoIndexRef, videoSrc |-> videoSrc,
      videoTexture |-> videoTexture, isPlaying |-> isPlaying,
      isResetting |-> isResetting, openLidTrigger |-> openLidTrigger,
      showControls |-> showControls, controlsKey |-> controlsKey,
      isHidden |-> isHidden, hasShownControlsRef |-> hasShownControlsRef,
      showTimerRef |-> showTimerRef, timeouts |-> timeouts,
      entranceCleanup |-> entranceCleanup, loaderReady |-> loaderReady,
      showInstructionTooltip |-> showInstructionTooltip,
      instructionTimerRef |-> instructionTimerRef,
      instructionTimeout |-> instructionTimeout,
      videoState |-> videoState, playResolving |-> playResolving,
      lidRef |-> lidRef, initialLidRotationX |-> initialLidRotationX,
      lidRotationX |-> lidRotationX, lidAnimRef |-> lidAnimRef]

\* The step that ends in state record r.
Becomes(r) ==
    \E n \in {r} :
        /\ zoomTrigger' = n.zoomTrigger
        /\ zoomOutTrigger' = n.zoomOutTrigger
        /\ tweenRef' = n.tweenRef
        /\ savedUpdateRef' = n.savedUpdateRef
        /\ gsapTweens' = n.gsapTweens
        /\ zoomInCleanup' = n.zoomInCleanup
        /\ zoomOutCleanup' = n.zoomOutCleanup
        /\ camera' = n.camera
        /\ sceneBackground' = n.sceneBackground
        /\ controls' = n.controls
        /\ rafQueue' = n.rafQueue
        /\ screenCenterRef' = n.screenCenterRef
        /\ videoRef' = n.videoRef
        /\ controlsTlRef' = n.controlsTlRef
        /\ isHidingControlsRef' = n.isHidingControlsRef
        /\ currentVideoIndex' = n.currentVideoIndex
        /\ currentVideoIndexRef' = n.currentVideoIndexRef
        /\ videoSrc' = n.videoSrc
        /\ videoTexture' = n.videoTexture
        /\ isPlaying' = n.isPlaying
        /\ isResetting' = n.isResetting
        /\ openLidTrigger' = n.openLidTrigger
        /\ showControls' = n.showControls
        /\ controlsKey' = n.controlsKey
        /\ isHidden' = n.isHidden
        /\ hasShownControlsRef' = n.hasShownControlsRef
        /\ showTimerRef' = n.showTimerRef
        /\ timeouts' = n.timeouts
        /\ entranceCleanup' = n.entranceCleanup
        /\ showInstructionTooltip' = n.showInstructionTooltip
        /\ instructionTimerRef' = n.instructionTimerRef
        /\ instructionTimeout' = n.instructionTimeout
        /\ loaderReady' = n.loaderReady
        /\ videoState' = n.videoState
        /\ playResolving' = n.playResolving
        /\ lidRef' = n.lidRef
        /\ initialLidRotationX' = n.initialLidRotationX
        /\ lidRotationX' = n.lidRotationX
        /\ lidAnimRef' = n.lidAnimRef
        /\ UNCHANGED <<currentTime, videoDuration, duration, lastSeek>>

Min(a, b) == IF a < b THEN a ELSE b

\* controlsTlRef.current: the kind of timeline it holds ("null": none), whether
\* that timeline still runs, and its playhead while it does
NoTimeline == [kind |-> "null", elapsed |-> 0, active |-> FALSE]
NoSeek == [kind |-> "none", from |-> 0, arg |-> 0]
NoLidAnim == [active |-> FALSE, startAngle |-> 0, endAngle |-> 0, elapsed |-> 0]

Init ==
    /\ zoomTrigger = 0
    /\ zoomOutTrigger = 0
    /\ tweenRef = 0
    /\ savedUpdateRef = "null"
    /\ gsapTweens = {}
    /\ zoomInCleanup = FALSE
    /\ zoomOutCleanup = FALSE
    /\ camera = [position |-> INITIAL_CAMERA.position,
                 fov |-> INITIAL_CAMERA.fov,
                 lookAt |-> INITIAL_CAMERA.target]
    /\ sceneBackground = BG_DAY
    /\ controls = [enabled |-> TRUE, update |-> "orig",
                   target |-> INITIAL_CAMERA.target]
    /\ rafQueue = FALSE
    /\ screenCenterRef = "null"
    /\ videoRef = "null"
    /\ controlsTlRef = NoTimeline
    /\ isHidingControlsRef = FALSE
    /\ currentVideoIndex = DEFAULT_VIDEO_INDEX
    /\ currentVideoIndexRef = DEFAULT_VIDEO_INDEX
    /\ videoSrc = "null"
    /\ videoTexture = "null"
    /\ isPlaying = FALSE
    /\ isResetting = FALSE
    /\ openLidTrigger = 0
    /\ showControls = FALSE
    /\ controlsKey = 0
    /\ isHidden = FALSE
    /\ hasShownControlsRef = FALSE
    /\ showTimerRef = 0
    /\ timeouts = {}
    /\ entranceCleanup = FALSE
    /\ showInstructionTooltip = FALSE
    /\ instructionTimerRef = TRUE
    /\ instructionTimeout = {INSTRUCTION_DELAY}
    /\ loaderReady = FALSE
    /\ videoState = "paused"
    /\ playResolving = FALSE
    /\ lidRef = "null"
    /\ initialLidRotationX = << >>
    /\ lidRotationX = LidOpenAngle
    /\ lidAnimRef = NoLidAnim
    /\ currentTime = 0
    /\ videoDuration = 0
    /\ duration = 0
    /\ lastSeek = NoSeek

(***************************************************************************)
(* CameraAnimator                                                          *)
(***************************************************************************)

\* Statement sequencing: F applied to the value x has once it is computed.
Then(x, F(_)) == CHOOSE y \in {F(v) : v \in {x}} : TRUE

\* THREE lerp: a + (b - a) * t, with t = num / den
Lerp(a, b, num, den) == a + (((b - a) * num) \div den)

\* GSAP "power2.inOut" at p = e / d, as the fraction EaseNum / EaseDen:
\* p < 0.5 ? 4 p^3 : 1 - 4 (1 - p)^3
EaseDen(d) == d * d * d
EaseNum(e, d) ==
    IF 2 * e < d THEN 4 * e * e * e
    ELSE (d * d * d) - 4 * (d - e) * (d - e) * (d - e)

\* a kill() that leaves the tween running
KillNothing(s, id) == s

\* tween.kill(): the tween with this id stops for good (0 = tweenRef is null)
Kill(s, id) == [s EXCEPT !.gsapTweens = {t \in @ : t.id # id}]

\* identity of a tween created now: distinct from every live tween
NewTweenId(s) ==
    CHOOSE i \in 1..(Cardinality(s.gsapTweens) + 1) :
        \A t \in s.gsapTweens : t.id # i

\* a zoom-in effect whose background always starts from the day colour
ZoomInEffectFromDay(s) ==
    IF s.zoomTrigger = 0 THEN [s EXCEPT !.zoomInCleanup = FALSE]
    ELSE IF s.screenCenterRef = "null" THEN [s EXCEPT !.zoomInCleanup = FALSE]
    ELSE
      LET k == Kill(s, s.tweenRef)
          id == NewTweenId(k)
          tw == [id |-> id, dir |-> "in", elapsed |-> 0,
                 startPos |-> k.camera.position,
                 startTarget |-> k.controls.target,
                 startFov |-> k.camera.fov,
                 startBg |-> BG_DAY,
                 endPos |-> ScreenCenter + CloseupLift,
                 endTarget |-> ScreenCenter,
                 endFov |-> CLOSEUP_FOV,
                 endBg |-> BG_NIGHT]
      IN [k EXCEPT !.controls.enabled = FALSE,
                   !.savedUpdateRef = k.controls.update,
                   !.controls.update = "noop",
                   !.gsapTweens = @ \cup {tw},
                   !.tweenRef = id,
                   !.zoomInCleanup = TRUE]

\* Body of the zoom-in effect (camera -> TV screen, bg -> night).
ZoomInEffect(s) ==
    IF s.zoomTrigger = 0 THEN [s EXCEPT !.zoomInCleanup = FALSE]
    ELSE IF s.screenCenterRef = "null" THEN [s EXCEPT !.zoomInCleanup = FALSE]
    ELSE
      LET k == Kill(s, s.tweenRef)
          id == NewTweenId(k)
          tw == [id |-> id, dir |-> "in", elapsed |-> 0,
                 startPos |-> k.camera.position,
                 startTarget |-> k.controls.target,
                 startFov |-> k.camera.fov,
                 startBg |-> k.sceneBackground,
                 endPos |-> ScreenCenter + CloseupLift,
                 endTarget |-> ScreenCenter,
                 endFov |-> CLOSEUP_FOV,
                 endBg |-> BG_NIGHT]
      IN [k EXCEPT !.controls.enabled = FALSE,
                   !.savedUpdateRef = k.controls.update,
                   !.controls.update = "noop",
                   !.gsapTweens = @ \cup {tw},
                   !.tweenRef = id,
                   !.zoomInCleanup = TRUE]

\* Body of the zoom-out effect (camera -> initial position, bg -> day).
ZoomOutEffect(s) ==
    IF s.zoomOutTrigger = 0 THEN [s EXCEPT !.zoomOutCleanup = FALSE]
    ELSE
      LET k == Kill(s, s.tweenRef)
          id == NewTweenId(k)
          tw == [id |-> id, dir |-> "out", elapsed |-> 0,
                 startPos |-> k.camera.position,
                 startTarget |-> k.controls.target,
                 startFov |-> k.camera.fov,
                 startBg |-> k.sceneBackground,
                 endPos |-> INITIAL_CAMERA.position,
                 endTarget |-> INITIAL_CAMERA.target,
                 endFov |-> INITIAL_CAMERA.fov,
                 endBg |-> BG_DAY]
      IN [k EXCEPT !.controls.enabled = FALSE,
                   !.savedUpdateRef = k.controls.update,
                   !.controls.update = "noop",
                   !.gsapTweens = @ \cup {tw},
                   !.tweenRef = id,
                   !.zoomOutCleanup = TRUE]

\* The cleanup both camera effects return.
CameraCleanup(s) ==
    LET k == IF s.tweenRef # 0
             THEN [Kill(s, s.tweenRef) EXCEPT !.tweenRef = 0]
             ELSE s
    IN IF k.savedUpdateRef # "null"
       THEN [k EXCEPT !.controls.update = k.savedUpdateRef,
                      !.savedUpdateRef = "null",
                      !.controls.enabled = TRUE]
       ELSE k

\* onUpdate of a camera tween at eased progress num / den
OnUpdate(s, tw, num, den) ==
    [s EXCEPT !.camera.position = Lerp(tw.startPos, tw.endPos, num, den),
              !.camera.lookAt = Lerp(tw.startTarget, tw.endTarget, num, den),
              !.camera.fov = Lerp(tw.startFov, tw.endFov, num, den),
              !.sceneBackground = Lerp(tw.startBg, tw.endBg, num, den)]

\* an onComplete that never re-enables the controls
RequestEnableDropped(s) == s

\* requestAnimationFrame(() => { controls.enabled = true })
RequestEnable(s) == [s EXCEPT !.rafQueue = TRUE]

\* onComplete of a camera tween, up to (not including) the completion callback.
\* controls.update() throws when the restored update is null: the rest of the
\* callback is then skipped (ok = FALSE).
OnComplete(s, tw) ==
    LET a == [s EXCEPT !.camera.position = tw.endPos,
                       !.camera.lookAt = tw.endTarget,
                       !.camera.fov = tw.endFov,
                       !.sceneBackground = tw.endBg,
                       !.controls.update = s.savedUpdateRef,
                       !.savedUpdateRef = "null",
                       !.controls.target = tw.endTarget]
    IN IF a.controls.update = "null"
       THEN [st |-> a, ok |-> FALSE]
       ELSE [st |-> RequestEnable(a), ok |-> TRUE]

(***************************************************************************)
(* Playstation: lid animation                                              *)
(***************************************************************************)

\* easeInOut(t) at t = e / d as the fraction LidEaseNum / LidEaseDen:
\* t < 0.5 ? 2 t^2 : -1 + (4 - 2 t) t
LidEaseDen(d) == d * d
LidEaseNum(e, d) ==
    IF 2 * e < d THEN 2 * e * e
    ELSE (4 * e * d) - (2 * e * e) - (d * d)

Abs(x) == IF x < 0 THEN -x ELSE x

\* Lid close: called directly from the click handler.
startLidAnimation(s) ==
    IF s.lidRef = "null" THEN s
    ELSE IF Abs(s.lidRotationX - 0) < LidEpsilon THEN s
    ELSE [s EXCEPT !.lidAnimRef = [active |-> TRUE,
                                   startAngle |-> s.lidRotationX,
                                   endAngle |-> 0,
                                   elapsed |-> 0]]

\* a lid that ignores openLidTrigger
LidOpenEffectSkipped(s) == s

\* Lid open: the effect on openLidTrigger.
LidOpenEffect(s) ==
    IF s.openLidTrigger = 0 \/ s.lidRef = "null" \/ s.initialLidRotationX = << >>
    THEN s
    ELSE [s EXCEPT !.lidAnimRef = [active |-> TRUE,
                                   startAngle |-> s.lidRotationX,
                                   endAngle |-> s.initialLidRotationX[1],
                                   elapsed |-> 0]]

\* useFrame((_, delta) => ...): one frame of the lid animation.
UseFrame(s, delta) ==
    LET anim == s.lidAnimRef IN
    IF ~anim.active \/ s.lidRef = "null" THEN s
    ELSE
      LET elapsed == anim.elapsed + delta
          e == Min(elapsed, LID_ANIM_DURATION)
          angle == anim.startAngle
                   + (((anim.endAngle - anim.startAngle)
                       * LidEaseNum(e, LID_ANIM_DURATION))
                      \div LidEaseDen(LID_ANIM_DURATION))
      IN IF elapsed >= LID_ANIM_DURATION
         THEN [s EXCEPT !.lidRotationX = anim.endAngle,
                        !.lidAnimRef = [anim EXCEPT !.elapsed = elapsed,
                                                    !.active = FALSE]]
         ELSE [s EXCEPT !.lidRotationX = angle,
                        !.lidAnimRef = [anim EXCEPT !.elapsed = elapsed]]

\* Model setup effect: finds the lid, saves its open angle once, restores it,
\* and reports the screen centre (handleScreenReady).
ModelSetupEffect(s) ==
    LET open == IF s.initialLidRotationX = << >>
                THEN <<s.lidRotationX>> ELSE s.initialLidRotationX
    IN [s EXCEPT !.initialLidRotationX = open,
                 !.lidRotationX = open[1],
                 !.lidRef = "lid",
                 !.screenCenterRef = "center"]

(***************************************************************************)
(* Experience: effects                                                     *)
(***************************************************************************)

PanelReady(s) == (s.videoTexture # "null" \/ s.isResetting) /\ s.showControls
PanelVisible(s) == PanelReady(s) /\ ~s.isHidden
PanelHidden(s) == PanelReady(s) /\ s.isHidden
ShowResidualLed(s) == PanelHidden(s) /\ ~s.isResetting

\* controlsTlRef.current.kill()
KillTimeline(s) ==
    [s EXCEPT !.controlsTlRef.active = FALSE, !.controlsTlRef.elapsed = 0]

\* Body of the entrance effect (cases fade, panel static reveal).  The panel
\* elements are mounted whenever the panel is rendered visible.
EntranceEffect(s) ==
    LET isVisible == s.videoTexture # "null" /\ s.showControls /\ ~s.isHidden
    IN IF ~isVisible THEN [s EXCEPT !.entranceCleanup = FALSE]
       ELSE IF ~PanelVisible(s) THEN [s EXCEPT !.entranceCleanup = FALSE]
       ELSE [s EXCEPT !.isHidingControlsRef = FALSE,
                      !.controlsTlRef = [kind |-> "entrance", elapsed |-> 0,
                                         active |-> TRUE],
                      !.entranceCleanup = TRUE]

\* Cleanup of the entrance effect.
EntranceCleanup(s) ==
    IF s.controlsTlRef.kind # "null" THEN KillTimeline(s) ELSE s

\* clearTimeout(id)
ClearTimeout(s, id) == [s EXCEPT !.timeouts = {t \in @ : t.id # id}]

NewTimeoutId(s) ==
    CHOOSE i \in 1..(Cardinality(s.timeouts) + 1) :
        \A t \in s.timeouts : t.id # i

\* Body of the 8-second delay effect (first time only).
ShowDelayEffect(s) ==
    IF s.isPlaying /\ s.videoTexture # "null" /\ ~s.hasShownControlsRef
    THEN LET id == NewTimeoutId(s)
         IN [s EXCEPT !.hasShownControlsRef = TRUE,
                      !.showTimerRef = id,
                      !.timeouts = @ \cup {[id |-> id,
                                            remaining |-> SHOW_DELAY]}]
    ELSE s

\* a delay effect that returns no cleanup
ShowDelayCleanupMissing(s) == s

\* Cleanup of the 8-second delay effect.
ShowDelayCleanup(s) ==
    IF s.showTimerRef # 0 THEN ClearTimeout(s, s.showTimerRef) ELSE s

\* an instruction effect whose else branch leaves the hint and its timer alone
InstructionEffectKeepsHint(s) ==
    IF s.zoomTrigger = 0 /\ ~s.isResetting /\ s.videoSrc = "null"
    THEN [s EXCEPT !.instructionTimerRef = TRUE,
                   !.instructionTimeout = {INSTRUCTION_DELAY}]
    ELSE s

\* Body of the instruction tooltip effect.
InstructionEffect(s) ==
    IF s.zoomTrigger = 0 /\ ~s.isResetting /\ s.videoSrc = "null"
    THEN [s EXCEPT !.instructionTimerRef = TRUE,
                   !.instructionTimeout = {INSTRUCTION_DELAY}]
    ELSE LET h == [s EXCEPT !.showInstructionTooltip = FALSE]
         IN IF h.instructionTimerRef
            THEN [h EXCEPT !.instructionTimeout = {},
                           !.instructionTimerRef = FALSE]
            ELSE h

\* Cleanup of the instruction tooltip effect.
InstructionCleanup(s) ==
    IF s.instructionTimerRef THEN [s EXCEPT !.instructionTimeout = {}] ELSE s

\* currentVideoIndexRef.current = currentVideoIndex
IndexRefEffect(s) == [s EXCEPT !.currentVideoIndexRef = s.currentVideoIndex]

\* <VideoTextureLoader key={videoSrc}>: a change of videoSrc unmounts the
\* loader and mounts a fresh one (or none).
LoaderRemount(s) == [s EXCEPT !.loaderReady = FALSE]

(***************************************************************************)
(* One React commit: old is the state rendered before the handler ran, s   *)
(* the state the handler left.  Every effect whose dependencies changed    *)
(* runs its cleanup (if its last run returned one); then the bodies run.   *)
(***************************************************************************)
RunEffects(old, s) ==
    LET inDep == s.zoomTrigger # old.zoomTrigger
        outDep == s.zoomOutTrigger # old.zoomOutTrigger
        entDep == \/ s.videoTexture # old.videoTexture
                  \/ s.showControls # old.showControls
                  \/ s.isHidden # old.isHidden
                  \/ s.controlsKey # old.controlsKey
        delayDep == \/ s.isPlaying # old.isPlaying
                    \/ s.videoTexture # old.videoTexture
        instrDep == \/ s.zoomTrigger # old.zoomTrigger
                    \/ s.isResetting # old.isResetting
                    \/ s.videoSrc # old.videoSrc
        \* cleanups
        c1(v) == IF inDep /\ v.zoomInCleanup THEN CameraCleanup(v) ELSE v
        c2(v) == IF outDep /\ v.zoomOutCleanup THEN CameraCleanup(v) ELSE v
        c3(v) == IF entDep /\ v.entranceCleanup THEN EntranceCleanup(v) ELSE v
        c4(v) == IF delayDep THEN ShowDelayCleanup(v) ELSE v
        c5(v) == IF instrDep THEN InstructionCleanup(v) ELSE v
        \* bodies
        b1(v) == IF inDep THEN ZoomInEffect(v) ELSE v
        b2(v) == IF outDep THEN ZoomOutEffect(v) ELSE v
        b3(v) == IF s.videoSrc # old.videoSrc THEN LoaderRemount(v) ELSE v
        b4(v) == IF s.openLidTrigger # old.openLidTrigger
                 THEN LidOpenEffect(v) ELSE v
        b5(v) == IF s.currentVideoIndex # old.currentVideoIndex
                 THEN IndexRefEffect(v) ELSE v
        b6(v) == IF entDep THEN EntranceEffect(v) ELSE v
        b7(v) == IF delayDep THEN ShowDelayEffect(v) ELSE v
        b8(v) == IF instrDep THEN InstructionEffect(v) ELSE v
    IN Then(Then(Then(Then(Then(Then(Then(Then(Then(Then(Then(Then(Then(s,
         c1), c2), c3), c4), c5), b1), b2), b3), b4), b5), b6), b7), b8)

\* the commit that follows a handler
Commit(old, s) == Then(<<old, s>>, LAMBDA p : RunEffects(p[1], p[2]))

(***************************************************************************)
(* Experience: callbacks                                                   *)
(***************************************************************************)

\* a handlePs1Click that does not wait for the screen centre
handlePs1ClickUnguarded(s) == [s EXCEPT !.zoomTrigger = @ + 1]

handlePs1Click(s) ==
    IF s.screenCenterRef # "null"
    THEN [s EXCEPT !.zoomTrigger = @ + 1]
    ELSE s

\* an onComplete that forgets its completion callback
handleZoomCompleteSkipped(s) == s

\* a handleZoomComplete that loads the selected source whatever is loaded
handleZoomCompleteReloads(s) ==
    [s EXCEPT !.videoSrc = VIDEOS[s.currentVideoIndex + 1],
              !.videoTexture = "null",
              !.isPlaying = FALSE]

handleZoomComplete(s) ==
    IF s.videoSrc = "null"
    THEN [s EXCEPT !.videoSrc = VIDEOS[s.currentVideoIndex + 1]]
    ELSE s

\* video.pause(): a play() promise still pending is rejected (and swallowed)
Pause(s) == [s EXCEPT !.videoState = "paused"]

\* video.play(): paused becomes false at once, the promise settles later
Play(s) == [s EXCEPT !.videoState = "requested"]

\* handleVideoReady(texture), texture being the one loaded from videoSrc; the
\* element it wraps is a fresh, paused one.
handleVideoReady(s) ==
    Play([s EXCEPT !.videoTexture = s.videoSrc,
                   !.videoRef = s.videoSrc,
                   !.videoState = "paused"])

\* VideoTextureLoader: useVideoTexture has loaded src; the effect calls onReady
LoaderEffect(s) == handleVideoReady([s EXCEPT !.loaderReady = TRUE])

\* .then(() => setIsPlaying(true))
PlayThen(s) == [s EXCEPT !.isPlaying = TRUE, !.playResolving = FALSE]

\* the "ended" listener handleVideoReady attaches to the element
OnEnded(s) ==
    LET nextIndex == (s.currentVideoIndexRef + 1) % Len(VIDEOS)
    IN [Pause(s) EXCEPT !.videoRef = "null",
                        !.isPlaying = FALSE,
                        !.videoTexture = "null",
                        !.currentVideoIndex = nextIndex,
                        !.videoSrc = VIDEOS[nextIndex + 1]]

handlePlayPause(s) ==
    IF s.videoRef = "null" THEN s
    ELSE IF s.videoState = "paused" THEN Play(s)
    ELSE [Pause(s) EXCEPT !.isPlaying = FALSE]

handleSwitchVideo(s, newIndex) ==
    LET p == IF s.videoRef # "null" THEN Pause(s) ELSE s
    IN [p EXCEPT !.videoRef = "null",
                 !.isPlaying = FALSE,
                 !.videoTexture = "null",
                 !.currentVideoIndex = newIndex,
                 !.videoSrc = VIDEOS[newIndex + 1]]

\* a handleHide that always takes the immediate fallback
handleHideImmediate(s, mounted) ==
    IF s.isHidingControlsRef THEN s ELSE [s EXCEPT !.isHidden = TRUE]

\* handleHide; mounted: the panel elements (controlsWrapRef, overlay) exist
handleHide(s, mounted) ==
    IF s.isHidingControlsRef THEN s
    ELSE IF ~mounted THEN [s EXCEPT !.isHidden = TRUE]
    ELSE [s EXCEPT !.isHidingControlsRef = TRUE,
                   !.controlsTlRef = [kind |-> "hide", elapsed |-> 0,
                                      active |-> TRUE]]

\* onComplete of the hide timeline
HideComplete(s) ==
    [s EXCEPT !.isHidingControlsRef = FALSE, !.isHidden = TRUE]

handleShow(s) == [s EXCEPT !.isHidden = FALSE, !.controlsKey = @ + 1]

\* a handleZoomOutComplete that only ends the reset
handleZoomOutCompleteKeepsPanel(s) == [s EXCEPT !.isResetting = FALSE]

handleZoomOutComplete(s) ==
    LET a == [s EXCEPT !.isResetting = FALSE,
                       !.showControls = FALSE,
                       !.isHidden = FALSE,
                       !.currentVideoIndex = DEFAULT_VIDEO_INDEX,
                       !.controlsKey = @ + 1]
        b == IF a.controlsTlRef.kind # "null"
             THEN [a EXCEPT !.controlsTlRef = NoTimeline]
             ELSE a
    IN [b EXCEPT !.isHidingControlsRef = FALSE]

\* handleResetAll past its guard, steps 1 to 5; mounted as for handleHide
ResetAll(s, mounted) ==
    LET a == [s EXCEPT !.isResetting = TRUE]
        b == IF a.videoRef # "null" THEN Pause(a) ELSE a
        c == IF b.showTimerRef # 0
             THEN [ClearTimeout(b, b.showTimerRef) EXCEPT !.showTimerRef = 0]
             ELSE b
        d == [c EXCEPT !.videoRef = "null", !.hasShownControlsRef = FALSE]
        e == handleHide(d, mounted)
    IN [e EXCEPT !.isPlaying = FALSE,
                 !.videoTexture = "null",
                 !.videoSrc = "null",
                 !.zoomTrigger = 0,
                 !.zoomOutTrigger = @ + 1,
                 !.openLidTrigger = @ + 1]

\* a handleResetAll without the double-reset guard
handleResetAllReentrant(s, mounted) == ResetAll(s, mounted)

\* handleResetAll: if (isResetting) return
handleResetAll(s, mounted) ==
    IF s.isResetting THEN s ELSE ResetAll(s, mounted)

(***************************************************************************)
(* One animation frame                                                     *)
(***************************************************************************)

\* the queued requestAnimationFrame callbacks run: controls.enabled = true
RunRaf(s) ==
    IF s.rafQueue
    THEN [s EXCEPT !.controls.enabled = TRUE, !.rafQueue = FALSE]
    ELSE s

\* GSAP renders one camera tween delta later: onUpdate, and at progress 1
\* onComplete followed by the completion callback and the commit it causes.
TickTween(s, tw, delta) ==
    LET e == Min(tw.elapsed + delta, ANIM_DURATION)
        u == OnUpdate(s, tw, EaseNum(e, ANIM_DURATION), EaseDen(ANIM_DURATION))
    IN IF e < ANIM_DURATION
       THEN [u EXCEPT !.gsapTweens =
                 (@ \ {tw}) \cup {[tw EXCEPT !.elapsed = e]}]
       ELSE
         LET done == [u EXCEPT !.gsapTweens = @ \ {tw}]
             c == OnComplete(done, tw)
         IN IF ~c.ok THEN c.st
            ELSE IF tw.dir = "in"
                 THEN Commit(c.st, handleZoomComplete(c.st))
                 ELSE Commit(c.st, handleZoomOutComplete(c.st))

\* the GSAP ticker renders every live camera tween, in order of creation
RECURSIVE TickTweens(_, _, _)
TickTweens(s, ids, delta) ==
    IF ids = {} THEN s
    ELSE LET i == CHOOSE x \in ids : \A y \in ids : x <= y
             live == {t \in s.gsapTweens : t.id = i}
             n == IF live = {} THEN s
                  ELSE TickTween(s, CHOOSE t \in live : TRUE, delta)
         IN Then(n, LAMBDA v : TickTweens(v, ids \ {i}, delta))

TimelineDuration(kind) ==
    IF kind = "hide" THEN HIDE_DURATION ELSE ENTRANCE_DURATION

\* the GSAP ticker renders the panel timeline; the hide timeline calls its
\* onComplete when it ends
TickTimeline(s, delta) ==
    LET tl == s.controlsTlRef IN
    IF ~tl.active THEN s
    ELSE
      LET e == Min(tl.elapsed + delta, TimelineDuration(tl.kind))
      IN IF e < TimelineDuration(tl.kind)
         THEN [s EXCEPT !.controlsTlRef.elapsed = e]
         ELSE LET done == KillTimeline(s)
              IN IF tl.kind = "hide"
                 THEN Commit(done, HideComplete(done))
                 ELSE done

\* time passes for the pending timeouts
TickTimeouts(s, delta) ==
    [s EXCEPT !.timeouts =
        {[t EXCEPT !.remaining = IF @ > delta THEN @ - delta ELSE 0] : t \in @},
              !.instructionTimeout =
        {IF r > delta THEN r - delta ELSE 0 : r \in @}]

\* setTimeout(() => setShowControls(true), 8000) fires
ShowTimeout(s) == [s EXCEPT !.showControls = TRUE]

\* setTimeout(() => setShowInstructionTooltip(true), 10000) fires
InstructionTimeout(s) == [s EXCEPT !.showInstructionTooltip = TRUE]

(***************************************************************************)
(* Actions                                                                 *)
(***************************************************************************)

\* Playstation mounts: the model setup effect runs.
ModelSetup ==
    /\ screenCenterRef = "null"
    /\ Becomes(ModelSetupEffect(S))

\* onClick of the console: onPs1Click(), then startLidAnimation().
PsClick ==
    /\ zoomTrigger < MaxZoom
    /\ Becomes(Commit(S, startLidAnimation(handlePs1Click(S))))

\* One animation frame.
Frame ==
    /\ \A t \in timeouts : t.remaining > 0
    /\ 0 \notin instructionTimeout
    /\ Becomes(Then(Then(Then(Then(TickTimeouts(S, FrameDelta),
                 LAMBDA s : RunRaf(s)),
                 LAMBDA s : TickTweens(s, {t.id : t \in gsapTweens},
                                       FrameDelta)),
                 LAMBDA s : TickTimeline(s, FrameDelta)),
                 LAMBDA s : UseFrame(s, FrameDelta)))

\* The 8-second timer fires.
ShowTimerFires ==
    \E t \in timeouts :
        /\ t.remaining = 0
        /\ Becomes(Commit(S, ShowTimeout([S EXCEPT !.timeouts = @ \ {t}])))

\* The 10-second instruction timer fires.
InstructionTimerFires ==
    /\ 0 \in instructionTimeout
    /\ Becomes(Commit(S, InstructionTimeout([S EXCEPT
                                              !.instructionTimeout = {}])))

\* The mounted VideoTextureLoader delivers its texture.
LoaderDelivers ==
    /\ videoSrc # "null"
    /\ ~loaderReady
    /\ Becomes(Commit(S, LoaderEffect(S)))

\* The browser starts playback: the play() promise is resolved.
PlayStarts ==
    /\ videoState = "requested"
    /\ ~playResolving
    /\ Becomes([S EXCEPT !.videoState = "playing", !.playResolving = TRUE])

\* The browser refuses playback: .catch(() => {}).
PlayRejected ==
    /\ videoState = "requested"
    /\ Becomes(Pause(S))

\* The then-callback of a resolved play() promise runs.
PlayResolved ==
    /\ playResolving
    /\ Becomes(Commit(S, PlayThen(S)))

\* The bound video reaches its end.
VideoEnded ==
    /\ videoRef # "null"
    /\ videoState = "playing"
    /\ ~playResolving
    /\ Becomes(Commit(S, OnEnded(S)))

\* VideoControls: play/pause button.
ClickPlayPause ==
    /\ PanelVisible(S)
    /\ Becomes(Commit(S, handlePlayPause(S)))

\* a next step that does not wrap
handleNextVideoUnwrapped(i) == i + 1

\* VideoControls: the index handleNextVideo and handlePrevVideo switch to
handleNextVideo(i) == (i + 1) % Len(VIDEOS)
handlePrevVideo(i) == (i - 1 + Len(VIDEOS)) % Len(VIDEOS)

\* VideoControls: the next-video button.
ClickNextVideo ==
    /\ PanelVisible(S)
    /\ Becomes(Commit(S, handleSwitchVideo(S,
                  handleNextVideo(currentVideoIndex))))

\* VideoControls: the previous-video button.
ClickPrevVideo ==
    /\ PanelVisible(S)
    /\ Becomes(Commit(S, handleSwitchVideo(S,
                  handlePrevVideo(currentVideoIndex))))

\* Click on a jewel case other than the current one.
ClickCase ==
    /\ PanelVisible(S)
    /\ \E idx \in 0..(Len(VIDEOS) - 1) :
          /\ idx # currentVideoIndex
          /\ Becomes(Commit(S, handleSwitchVideo(S, idx)))

\* VideoControls: the hide button, or its H key handler.
RequestHide ==
    /\ PanelVisible(S)
    /\ Becomes(Commit(S, handleHide(S, PanelVisible(S))))

\* Experience key handler, H: show the panel when hidden; or a click on the
\* residual LED.
RequestShow ==
    /\ \/ showControls /\ isHidden
       \/ ShowResidualLed(S)
    /\ controlsKey + (IF isResetting THEN 1 ELSE 0) < MaxKey
    /\ Becomes(Commit(S, handleShow(S)))

\* Experience key handler, R: replay the entrance animation.
KeyReplay ==
    /\ showControls
    /\ ~isHidden
    /\ controlsKey + (IF isResetting THEN 1 ELSE 0) < MaxKey
    /\ Becomes(Commit(S, [S EXCEPT !.controlsKey = @ + 1]))

\* VideoControls: the power-off button.
ClickPowerOff ==
    /\ PanelVisible(S)
    /\ isResetting \/ (zoomOutTrigger < MaxReset /\ controlsKey < MaxKey)
    /\ Becomes(Commit(S, handleResetAll(S, PanelVisible(S))))

Next ==
    \/ ModelSetup
    \/ PsClick
    \/ Frame
    \/ ShowTimerFires
    \/ InstructionTimerFires
    \/ LoaderDelivers
    \/ PlayStarts
    \/ PlayRejected
    \/ PlayResolved
    \/ VideoEnded
    \/ ClickPlayPause
    \/ ClickNextVideo
    \/ ClickPrevVideo
    \/ ClickCase
    \/ RequestHide
    \/ RequestShow
    \/ KeyReplay
    \/ ClickPowerOff

Spec == Init /\ [][Next]_vars

\* The browser keeps producing frames, firing due timers and settling
\* promises; the user owes nothing.
FairSpec ==
    /\ Spec
    /\ WF_vars(Frame)
    /\ WF_vars(ShowTimerFires)
    /\ WF_vars(InstructionTimerFires)
    /\ WF_vars(PlayResolved)
    /\ WF_vars(PlayStarts \/ PlayRejected)
    /\ WF_vars(LoaderDelivers)

(***************************************************************************)
(* Seeking.  handleSeek and handleProgressClick are functions of the bound *)
(* element, its clock, its duration and the duration state of the panel;   *)
(* SeekSpec draws those from bounded sets and applies the two handlers.    *)
(***************************************************************************)

Max(a, b) == IF a > b THEN a ELSE b

\* media durations, in seconds: unknown, short, long; multiples of the bar's
\* width, so that ratio * duration is a whole number of seconds
LongDuration == 3 * ProgressWidth
Durations == {0, ProgressWidth, LongDuration}
SeekOffsets == {-10, 10}
ClickPositions == (-1)..(ProgressWidth + 1)

\* the currentTime setter of the media element: the seek is clamped to the
\* media's own range
SetCurrentTime(dur, t) == Max(0, Min(dur, t))

\* a seek that adds the offset and clamps nothing
handleSeekUnclamped(video, time, dur, offset) == time + offset

handleSeek(video, time, dur, offset) ==
    IF video = "null" THEN time
    ELSE SetCurrentTime(dur, Max(0, Min(dur, time + offset)))

\* handleProgressClick; x: e.clientX - rect.left, in units of rect.width /
\* ProgressWidth; panelDuration: the duration state of useVideoTime
handleProgressClick(video, time, dur, panelDuration, x) ==
    LET ratioNum == Max(0, Min(ProgressWidth, x))
    IN IF video # "null" /\ panelDuration # 0
       THEN SetCurrentTime(dur, (ratioNum * panelDuration) \div ProgressWidth)
       ELSE time

SeekInit ==
    /\ videoRef \in {"null"} \cup {VIDEOS[i] : i \in 1..Len(VIDEOS)}
    /\ videoDuration \in Durations
    /\ currentTime \in 0..videoDuration
    /\ duration \in Durations
    /\ lastSeek = NoSeek
    /\ zoomTrigger = 0
    /\ zoomOutTrigger = 0
    /\ tweenRef = 0
    /\ savedUpdateRef = "null"
    /\ gsapTweens = {}
    /\ zoomInCleanup = FALSE
    /\ zoomOutCleanup = FALSE
    /\ camera = [position |-> INITIAL_CAMERA.position,
                 fov |-> INITIAL_CAMERA.fov,
                 lookAt |-> INITIAL_CAMERA.target]
    /\ sceneBackground = BG_DAY
    /\ controls = [enabled |-> TRUE, update |-> "orig",
                   target |-> INITIAL_CAMERA.target]
    /\ rafQueue = FALSE
    /\ screenCenterRef = "null"
    /\ controlsTlRef = NoTimeline
    /\ isHidingControlsRef = FALSE
    /\ currentVideoIndex = DEFAULT_VIDEO_INDEX
    /\ currentVideoIndexRef = DEFAULT_VIDEO_INDEX
    /\ videoSrc = "null"
    /\ videoTexture = "null"
    /\ isPlaying = FALSE
    /\ isResetting = FALSE
    /\ openLidTrigger = 0
    /\ showControls = FALSE
    /\ controlsKey = 0
    /\ isHidden = FALSE
    /\ hasShownControlsRef = FALSE
    /\ showTimerRef = 0
    /\ timeouts = {}
    /\ entranceCleanup = FALSE
    /\ showInstructionTooltip = FALSE
    /\ instructionTimerRef = TRUE
    /\ instructionTimeout = {INSTRUCTION_DELAY}
    /\ loaderReady = FALSE
    /\ videoState = "paused"
    /\ playResolving = FALSE
    /\ lidRef = "null"
    /\ initialLidRotationX = << >>
    /\ lidRotationX = LidOpenAngle
    /\ lidAnimRef = NoLidAnim

varsButSeek ==
    <<zoomTrigger, zoomOutTrigger, tweenRef, savedUpdateRef, gsapTweens,
      zoomInCleanup, zoomOutCleanup, camera, sceneBackground, controls,
      rafQueue, screenCenterRef, videoRef, controlsTlRef,
      isHidingControlsRef, currentVideoIndex, currentVideoIndexRef,
      videoSrc, videoTexture, isPlaying, isResetting, openLidTrigger,
      showControls, controlsKey, isHidden, hasShownControlsRef,
      showTimerRef, timeouts, entranceCleanup, loaderReady, videoState,
      playResolving, lidRef, initialLidRotationX, lidRotationX, lidAnimRef,
      showInstructionTooltip, instructionTimerRef, instructionTimeout,
      videoDuration, duration>>

\* VideoControls: the -10 s and +10 s buttons.
ClickSeek ==
    \E offset \in SeekOffsets :
        /\ currentTime' = handleSeek(videoRef, currentTime, videoDuration,
                                     offset)
        /\ lastSeek' = [kind |-> "seek", from |-> currentTime,
                        arg |-> offset]
        /\ UNCHANGED varsButSeek

\* VideoControls: a click on the progress bar.
ClickProgress ==
    \E x \in ClickPositions :
        /\ currentTime' = handleProgressClick(videoRef, currentTime,
                                              videoDuration, duration, x)
        /\ lastSeek' = [kind |-> "progress", from |-> currentTime,
                        arg |-> x]
        /\ UNCHANGED varsButSeek

SeekNext == ClickSeek \/ ClickProgress

SeekSpec == SeekInit /\ [][SeekNext]_vars

(***************************************************************************)
(* Properties                                                              *)
(***************************************************************************)

\* a camera run is active
CameraRunActive == gsapTweens # {}

\* C1: camera-axis mutual exclusion: at most one camera tween is live at any
\* instant, whatever the sequence of forward and reverse triggers.
C1_AtMostOneCameraTween == Cardinality(gsapTweens) <= 1

\* C1 witness: a run has just started from a pose strictly between the
\* initial and the close-up pose: it replaced a run that was in flight.
C1_RunReplacedInFlight ==
    \E t \in gsapTweens :
        /\ t.elapsed = 0
        /\ t.startPos # INITIAL_CAMERA.position
        /\ t.startPos # ScreenCenter + CloseupLift

\* C2: with no camera run active, controls.update is the original
\* OrbitControls update function, never the no-op a run installed.
C2_UpdateRestoredWhenIdle == ~CameraRunActive => controls.update = "orig"

C7_DisabledWhileRunning ==
    CameraRunActive => (~controls.enabled /\ controls.update = "noop")


\* a live forward tween reaches progress 1 in this step
ForwardRunCompletes ==
    \E t \in gsapTweens :
        /\ t.dir = "in"
        /\ \A u \in gsapTweens' : u.id # t.id
        /\ camera'.position = t.endPos
        /\ camera'.fov = t.endFov

\* C3: media-load gating: videoSrc goes from null to a source only in a step
\* in which a forward camera run reaches progress 1; no source switch or other
\* event (in particular during a reset's reverse run) starts a media load.
C3_MediaLoadsOnlyOnForwardArrival ==
    [][(videoSrc = "null" /\ videoSrc' # "null") => ForwardRunCompletes]_vars

\* C4: reset convergence: once a reset is accepted, whatever the user does
\* next and as long as frames, timers and promises keep running, the system
\* eventually reaches the terminal idle state, in which isResetting is false:
\* an accepted reset eventually ends.
C4_ResetConverges == isResetting ~> ~isResetting

\* C5: a resetAll request arriving while a reset is in progress changes no
\* state; while isResetting holds no step increments zoomOutTrigger or
\* openLidTrigger, so two requests in succession make one reset cycle.
C5_DuplicateResetIsNoOp ==
    [][isResetting =>
          /\ zoomOutTrigger' = zoomOutTrigger
          /\ openLidTrigger' = openLidTrigger
          /\ ClickPowerOff => UNCHANGED vars]_vars

\* C5 witness: a reset is in flight, its reverse run under way, and the panel
\* with its power-off button is still on screen.
C5_ResetInFlightPanelVisible ==
    /\ isResetting
    /\ PanelVisible(S)
    /\ \E t \in gsapTweens : t.dir = "out" /\ t.elapsed > 0

\* C8: continuity on interruption: a camera run that starts while another
\* run is at progress p in (0,1) starts from the last-rendered position, field
\* of view, background colour and look-at target.
C8_ContinuousOnInterruption ==
    [][\A old \in gsapTweens : \A new \in gsapTweens' :
          (old.elapsed > 0 /\ new.elapsed = 0) =>
              /\ new.startPos = camera.position
              /\ new.startFov = camera.fov
              /\ new.startBg = sceneBackground
              /\ new.startTarget = camera.lookAt]_vars

\* the reveal timer is pending
RevealPending == \E t \in timeouts : t.id = showTimerRef

\* C9: the panel auto-reveal fires exactly once per session, not zero times:
\* once the session's latch is taken, the reveal has happened or is pending.
C9_RevealOncePerSession == hasShownControlsRef => (showControls \/ RevealPending)

\* C10: showControls becomes true only when the reveal timer armed by the
\* delay effect has run its whole delay with media playing on a bound texture;
\* a change of isPlaying or videoTexture, or a reset, cancels a pending reveal.
C10_RevealOnlyAfterContinuousPlayback ==
    [][/\ (/\ timeouts # {}
           /\ \/ isPlaying' # isPlaying
              \/ videoTexture' # videoTexture
              \/ (~isResetting /\ isResetting'))
          => \A u \in timeouts' : u.remaining = SHOW_DELAY
       /\ \A t \in timeouts : t.id = showTimerRef /\ isPlaying
                              /\ videoTexture # "null"
       /\ (~showControls /\ showControls')
          => /\ \E t \in timeouts : t.remaining = 0
             /\ isPlaying' /\ videoTexture' = videoTexture]_vars

\* C10 witness: the timer has run its whole delay and is about to reveal the
\* panel of a session in which it was not shown yet.
C10_RevealDue == ~showControls /\ \E t \in timeouts : t.remaining = 0


\* index in the source list of the source a video element plays
IndexOfSrc(src) == CHOOSE i \in 0..(Len(VIDEOS) - 1) : VIDEOS[i + 1] = src

\* C11: media auto-advance: when playback of the source at index i ends, the
\* session is stopped (isPlaying false, texture and video reference cleared),
\* the selected index becomes (i+1) mod N and exactly that source starts loading.
C11_EndedAdvancesToNextSource ==
    [][VideoEnded =>
          LET next == (IndexOfSrc(videoRef) + 1) % Len(VIDEOS)
          IN /\ ~isPlaying' /\ videoTexture' = "null" /\ videoRef' = "null"
             /\ currentVideoIndex' = next
             /\ videoSrc' = VIDEOS[next + 1]
             /\ ~loaderReady']_vars


\* the live camera tween t reaches progress 1 in this step
Completes(t) == Frame /\ t.elapsed + FrameDelta >= ANIM_DURATION

\* the live camera tween t is still live, as it was or further on, after this step
Continues(t) ==
    \E u \in gsapTweens' : u.id = t.id /\ u.dir = t.dir /\ u.elapsed >= t.elapsed

\* C12: completion contract of a camera run: a run that reaches progress 1
\* snaps position, field of view, background and controls target to its end
\* values and its completion callback runs once (the forward one sets the
\* source if none is set, the reverse one ends the reset and bumps controlsKey
\* by one); a run killed before progress 1 has no completion callback run.
C12_CompletionContract ==
    [][\A t \in gsapTweens :
          /\ Completes(t) =>
               /\ camera'.position = t.endPos
               /\ camera'.fov = t.endFov
               /\ sceneBackground' = t.endBg
               /\ controls'.target = t.endTarget
               /\ t.dir = "in" => videoSrc' # "null"
               /\ t.dir = "out" => /\ ~isResetting' /\ ~showControls'
                                   /\ controlsKey' = controlsKey + 1
          /\ (~Completes(t) /\ ~Continues(t)) =>
               /\ t.dir = "in" => (videoSrc = "null" => videoSrc' = "null")
               /\ t.dir = "out" => /\ isResetting' = isResetting
                                   /\ controlsKey' = controlsKey]_vars

\* C12 witness: after two forward triggers a run has just completed: the camera
\* is at the close-up pose, the source is set, the re-enable is still queued.
C12_SecondRunJustCompleted ==
    /\ zoomTrigger = 2 /\ ~CameraRunActive /\ rafQueue
    /\ camera.position = ScreenCenter + CloseupLift
    /\ videoSrc # "null"


\* C13: when the reset's reverse camera run completes the panel collapses to
\* Dormant: showControls, isHidden and isResetting are false, no panel timeline
\* is live and the hiding flag is clear; and while the panel stays Dormant no
\* animation callback hides it or revives a timeline.
C13_PanelCollapsesOnReverseCompletion ==
    [][/\ \A t \in gsapTweens :
            (t.dir = "out" /\ Completes(t)) =>
                /\ ~showControls' /\ ~isHidden' /\ ~isResetting'
                /\ ~controlsTlRef'.active /\ ~isHidingControlsRef'
       /\ (~showControls /\ ~showControls') =>
                /\ ~isHidden' /\ ~controlsTlRef'.active
                /\ ~isHidingControlsRef']_vars

\* C13 witness: a reset has run to the end of its reverse run and the panel,
\* which was on screen when the reset started, is Dormant.
C13_DormantAfterReset ==
    /\ zoomOutTrigger = 1 /\ ~isResetting /\ ~CameraRunActive
    /\ ~showControls /\ controlsTlRef.kind = "null"


AtCloseup ==
    /\ ~CameraRunActive
    /\ camera.position = ScreenCenter + CloseupLift
    /\ camera.lookAt = ScreenCenter
    /\ camera.fov = CLOSEUP_FOV
    /\ sceneBackground = BG_NIGHT

\* C15: an epsilon-equal transition is skipped: a forward trigger issued while
\* the camera is already at the close-up pose starts no run and leaves the
\* controls alone; a lid close requested with the lid closed, and a lid open
\* requested with the lid at its open angle, start no lid run.
C15_EpsilonEqualRunIsSkipped ==
    [][/\ (PsClick /\ AtCloseup) =>
            (gsapTweens' = {} /\ controls' = controls)
       /\ (PsClick /\ lidRef # "null" /\ lidRotationX = 0) =>
            (lidAnimRef' = lidAnimRef /\ lidRotationX' = lidRotationX)
       /\ (ClickPowerOff /\ ~isResetting /\ <<lidRotationX>> = initialLidRotationX)
            => lidAnimRef' = lidAnimRef]_vars


SwitchStep == ClickNextVideo \/ ClickPrevVideo \/ ClickCase

\* C17: a source switch pauses the session, discards its binding (videoRef and
\* videoTexture null, isPlaying false), selects the new index and begins
\* loading that source; when the source reports ready playback is requested
\* and isPlaying waits for play to succeed; between the switch and the ready
\* event isPlaying is false and no texture is bound.
C17_SwitchDiscardsThenLoads ==
    [][/\ SwitchStep =>
            /\ videoState' = "paused" /\ videoRef' = "null"
            /\ videoTexture' = "null" /\ ~isPlaying'
            /\ currentVideoIndex' # currentVideoIndex
            /\ videoSrc' = VIDEOS[currentVideoIndex' + 1]
            /\ ~loaderReady'
       /\ LoaderDelivers =>
            /\ videoTexture' = videoSrc /\ videoRef' = videoSrc
            /\ videoState' = "requested" /\ isPlaying' = isPlaying
       /\ (videoSrc' # "null" /\ ~loaderReady') =>
            (~isPlaying' /\ videoTexture' = "null")]_vars


\* every variable but the media element's own state
varsButVideoState ==
    <<zoomTrigger, zoomOutTrigger, tweenRef, savedUpdateRef, gsapTweens,
      zoomInCleanup, zoomOutCleanup, camera, sceneBackground, controls,
      rafQueue, screenCenterRef, videoRef, controlsTlRef,
      isHidingControlsRef, currentVideoIndex, currentVideoIndexRef,
      videoSrc, videoTexture, isPlaying, isResetting, openLidTrigger,
      showControls, controlsKey, isHidden, hasShownControlsRef,
      showTimerRef, timeouts, entranceCleanup, loaderReady,
      playResolving, lidRef, initialLidRotationX, lidRotationX, lidAnimRef,
      showInstructionTooltip, instructionTimerRef, instructionTimeout,
      currentTime, videoDuration, duration, lastSeek>>

\* C18: togglePlayback: a toggle while the media plays pauses it and sets
\* isPlaying false; a toggle while it is paused requests play and leaves
\* isPlaying alone; isPlaying turns true only when a play request succeeds; a
\* rejected play request leaves isPlaying false and changes nothing else; with
\* no media bound the toggle changes nothing.
C18_ToggleToleratesRejection ==
    [][/\ (ClickPlayPause /\ videoRef # "null" /\ videoState # "paused") =>
            (videoState' = "paused" /\ ~isPlaying')
       /\ (ClickPlayPause /\ videoRef # "null" /\ videoState = "paused") =>
            (videoState' = "requested" /\ isPlaying' = isPlaying)
       /\ (ClickPlayPause /\ videoRef = "null") => UNCHANGED vars
       /\ (~isPlaying /\ isPlaying') => PlayResolved
       /\ PlayRejected =>
            (~isPlaying' /\ videoState' = "paused"
             /\ UNCHANGED varsButVideoState)]_vars


\* the instruction effect's condition: no forward transition triggered, no
\* reset in progress, no media source
HintAllowed == zoomTrigger = 0 /\ ~isResetting /\ videoSrc = "null"

HideInFlight == controlsTlRef.kind = "hide" /\ controlsTlRef.active

EntranceRestarted(tl) == tl.kind = "entrance" /\ tl.active /\ tl.elapsed = 0

\* C21: explicit show: a show request made while the panel is hidden (isHidden
\* true, showControls true) ends with the panel visible and the reveal
\* animation replayed: isHidden false, controlsKey incremented, the entrance
\* timeline restarted and the hiding flag cleared; nothing but a show request,
\* or the end of a reset, turns isHidden false.
C21_ShowReplaysReveal ==
    [][/\ RequestShow
          => /\ ~isHidden'
             /\ controlsKey' = controlsKey + 1
             /\ EntranceRestarted(controlsTlRef')
             /\ ~isHidingControlsRef'
       /\ (isHidden /\ ~isHidden')
          => (RequestShow \/ (isResetting /\ ~isResetting'))]_vars


\* lidAnimRef.current as a run started now from the lid's present angle
LidRunFromHere(endAngle) ==
    [active |-> TRUE, startAngle |-> lidRotationX, endAngle |-> endAngle,
     elapsed |-> 0]

\* C22: hinge-axis exclusivity: lidAnimRef holds the one lid run; a click on
\* the console while a lid run is in flight replaces it by a close run from
\* the lid's current angle with elapsed 0; an accepted reset replaces it by an
\* open run likewise; a run in flight otherwise only advances with the frames,
\* and the frame in which it reaches its duration leaves the lid exactly at
\* its end angle (0 or the initial open angle) and the run inactive.
C22_LidRunReplacedAtomically ==
    [][/\ (PsClick /\ lidAnimRef.active)
          => (lidAnimRef' = LidRunFromHere(0) /\ lidRotationX' = lidRotationX)
       /\ (zoomOutTrigger' # zoomOutTrigger /\ lidRef # "null")
          => (lidAnimRef' = LidRunFromHere(initialLidRotationX[1])
              /\ lidRotationX' = lidRotationX)
       /\ (Frame /\ lidAnimRef.active)
          => IF lidAnimRef.elapsed + FrameDelta >= LID_ANIM_DURATION
             THEN /\ lidRotationX' = lidAnimRef.endAngle
                  /\ lidAnimRef.endAngle \in {0, LidOpenAngle}
                  /\ ~lidAnimRef'.active
             ELSE lidAnimRef' = [lidAnimRef EXCEPT
                                   !.elapsed = @ + FrameDelta]
       /\ (lidAnimRef' # lidAnimRef)
          => (Frame \/ PsClick \/ zoomOutTrigger' # zoomOutTrigger)]_vars


\* a forward camera run reaches its duration in this frame
ForwardArrival == \E t \in gsapTweens : t.dir = "in" /\ Completes(t)

\* C23: onCameraArrived loads only when nothing is loaded: a forward run that
\* completes while videoSrc is null sets videoSrc to the selected source
\* VIDEOS[currentVideoIndex]; one that completes while a source is set leaves
\* videoSrc, currentVideoIndex, videoTexture, isPlaying, the loader and the
\* media element's playback state unchanged.
C23_ArrivalLoadsOnlyWhenUnloaded ==
    [][ForwardArrival
       => IF videoSrc = "null"
          THEN /\ videoSrc' = VIDEOS[currentVideoIndex + 1]
               /\ ~loaderReady'
               /\ UNCHANGED <<currentVideoIndex, videoTexture, isPlaying>>
          ELSE UNCHANGED <<videoSrc, currentVideoIndex, videoTexture,
                           isPlaying, loaderReady, videoState, videoRef,
                           playResolving>>]_vars

\* a second forward run has just arrived while the video plays
C23_ArrivedDuringPlayback ==
    /\ zoomTrigger = 2 /\ gsapTweens = {} /\ rafQueue
    /\ isPlaying /\ videoTexture # "null" /\ videoState = "playing"


\* C24: seek clamps: after seek(delta) from time t on a bound element the media
\* time is 0 when t + delta is negative, the duration when t + delta exceeds
\* it, and t + delta otherwise, so it lies in [0, duration] (0 when the
\* duration is unknown); after a click on the progress bar with a known panel
\* duration it is the click position, clamped to the bar, times the panel
\* duration over the bar's width, and no more than the media's duration; with
\* no media bound (or, for the bar, no panel duration) the time is unchanged.
C24_SeekClamps ==
    /\ 0 <= currentTime /\ currentTime <= videoDuration
    /\ lastSeek.kind = "seek" =>
         LET sum == lastSeek.from + lastSeek.arg
         IN currentTime = IF videoRef = "null" THEN lastSeek.from
                          ELSE IF sum < 0 THEN 0
                          ELSE IF sum > videoDuration THEN videoDuration
                          ELSE sum
    /\ lastSeek.kind = "progress" =>
         LET x == lastSeek.arg
             pos == IF x < 0 THEN 0
                    ELSE IF x > ProgressWidth THEN ProgressWidth ELSE x
         IN IF videoRef = "null" \/ duration = 0
            THEN currentTime = lastSeek.from
            ELSE \/ currentTime * ProgressWidth = pos * duration
                 \/ /\ currentTime = videoDuration
                    /\ pos * duration > videoDuration * ProgressWidth

\* a forward seek from 5 s in the long media was cut at the duration
C24_SeekCutAtDuration ==
    /\ videoRef # "null" /\ videoDuration = LongDuration
    /\ lastSeek = [kind |-> "seek", from |-> 5, arg |-> 10]
    /\ currentTime = LongDuration


\* C25: background start colour is sampled at run start: a camera run created
\* in a step takes as its start colour the colour displayed in that step and
\* ends at Night (forward) or Day (reverse); in every frame the background is
\* the interpolation between the run's start and end colours at the same
\* eased progress as the camera position; a forward run started when the
\* background is already Night never changes the colour.
C25_BackgroundStartsFromDisplayed ==
    [][/\ \A t \in gsapTweens' \ gsapTweens :
            t.elapsed = 0 =>
                /\ t.startBg = sceneBackground
                /\ sceneBackground' = sceneBackground
                /\ t.endBg = IF t.dir = "in" THEN BG_NIGHT ELSE BG_DAY
       /\ \A t \in gsapTweens :
            /\ Frame =>
                 LET e == IF t.elapsed + FrameDelta < ANIM_DURATION
                          THEN t.elapsed + FrameDelta ELSE ANIM_DURATION
                     num == EaseNum(e, ANIM_DURATION)
                     den == EaseDen(ANIM_DURATION)
                 IN /\ sceneBackground'
                         = t.startBg + (((t.endBg - t.startBg) * num) \div den)
                    /\ camera'.position
                         = t.startPos + (((t.endPos - t.startPos) * num)
                                         \div den)
            /\ (t.dir = "in" /\ t.startBg = BG_NIGHT)
                 => (sceneBackground = BG_NIGHT /\ sceneBackground' = BG_NIGHT)
      ]_vars

\* a forward run re-triggered at Night is in flight
C25_ForwardRunFromNight ==
    \E t \in gsapTweens :
        t.dir = "in" /\ t.startBg = BG_NIGHT /\ t.elapsed > 0


\* C26: reset hides the panel with its hide animation: the step that accepts a
\* reset leaves the hide timeline running; that timeline is not killed before
\* it reaches its end, so the panel is hidden (isHidden true) before the
\* reverse camera run completes and collapses it to Dormant.
C26_ResetHideRunsToCompletion ==
    [][/\ (zoomOutTrigger' # zoomOutTrigger) => HideInFlight'
       /\ (isResetting /\ HideInFlight /\ ~HideInFlight') => isHidden'
       /\ (isResetting /\ ~isResetting') => isHidden]_vars


\* C27: the reset guard cannot get stuck: whenever isResetting is true a
\* reverse camera run is live, whose completion clears the flag.
C27_ResettingHasReverseRun ==
    isResetting => \E t \in gsapTweens : t.dir = "out"


\* C28: selected index and loaded source agree: whenever a source is set it is
\* the source at the selected index.
C28_SourceIsSelectedIndex ==
    videoSrc # "null" => videoSrc = VIDEOS[currentVideoIndex + 1]

\* C29: playing implies a bound media session: isPlaying is true only while a
\* video texture and a video element are bound.
C29_PlayingImpliesBoundSession ==
    isPlaying => (videoTexture # "null" /\ videoRef # "null")


\* k next steps from index i
RECURSIVE NextTimes(_, _)
NextTimes(i, k) == IF k = 0 THEN i ELSE NextTimes(handleNextVideo(i), k - 1)

\* C30: channel stepping stays in range and is invertible: for every index i
\* of the source list, next gives i + 1 (0 after the last) and previous gives
\* i - 1 (the last before 0), each undoes the other, and as many next steps as
\* there are sources return to i; the selected index always lies within the
\* list, and the next and previous buttons select exactly those indices.
C30_ChannelSteppingInRange ==
    /\ [](/\ currentVideoIndex \in 0..(Len(VIDEOS) - 1)
          /\ currentVideoIndexRef \in 0..(Len(VIDEOS) - 1)
          /\ \A i \in 0..(Len(VIDEOS) - 1) :
                /\ handleNextVideo(i)
                     = IF i = Len(VIDEOS) - 1 THEN 0 ELSE i + 1
                /\ handlePrevVideo(i)
                     = IF i = 0 THEN Len(VIDEOS) - 1 ELSE i - 1
                /\ handlePrevVideo(handleNextVideo(i)) = i
                /\ handleNextVideo(handlePrevVideo(i)) = i
                /\ NextTimes(i, Len(VIDEOS)) = i)
    /\ [][/\ ClickNextVideo
             => currentVideoIndex'
                  = IF currentVideoIndex = Len(VIDEOS) - 1
                    THEN 0 ELSE currentVideoIndex + 1
          /\ ClickPrevVideo
             => currentVideoIndex'
                  = IF currentVideoIndex = 0
                    THEN Len(VIDEOS) - 1 ELSE currentVideoIndex - 1]_vars

\* the last source has been selected and loads
C30_LastSourceSelected ==
    /\ currentVideoIndex = Len(VIDEOS) - 1
    /\ videoSrc = VIDEOS[Len(VIDEOS)]
    /\ ~isResetting

=============================================================================
